---- MODULE Spec2Model ----
(***************************************************************************)
(* A model of package edn (paxan/go-edn): Marshal, the renderers behind    *)
(* it, the encoder cache (typeEncoder) and the stream Encoder.             *)
(*                                                                         *)
(* Two specifications share the module:                                    *)
(*   Spec       one goroutine calling Marshal and Encoder.Encode; the      *)
(*              renderers are applied as newTypeEncoder selects them.      *)
(*   CacheSpec  several goroutines calling Marshal at once; typeEncoder    *)
(*              is modelled statement by statement, with the RWMutex, the  *)
(*              WaitGroup of every indirect func and the call stack.       *)
(* Bytes are sequences of one-character strings.                           *)
(***************************************************************************)
EXTENDS Integers, Sequences, FiniteSets, TLC

VARIABLES
    \* ---- Spec: the stream Encoder and the last call
    enc,              \* the Encoder: [err], its field err (NoError = nil)
    sink,             \* enc.w: the Write calls it received, in order
    encodeStatePool,  \* the buffered channel of encodeStates (their stale bytes)
    ret,              \* what the last Marshal / Encode call returned
    prev,             \* what the Marshal call before it returned
    okCalls,          \* history: the values of the Encode calls that returned nil
    ncalls,           \* history: number of calls made so far
    \* ---- CacheSpec: the encoder cache and the goroutines
    m,                \* encoderCache.m: shape -> encoderFunc (NilFunc = absent)
    lockW,            \* encoderCache's RWMutex: the goroutine holding Lock, or 0
    lockR,            \* encoderCache's RWMutex: the goroutines holding RLock
    indir,            \* per goroutine: the wg, f and t of the typeEncoder calls it made
    stack,            \* per goroutine: the typeEncoder frames, innermost last
    phase,            \* per goroutine: idle / compile / render / done / panic
    work,             \* per goroutine: renderer calls still to run, next first
    val,              \* per goroutine: the value its Marshal call was given
    buf,              \* per goroutine: the bytes its encodeState holds
    compiled,         \* history: per goroutine and shape, newTypeEncoder runs at line 151
    called,           \* history: per goroutine, the funcs its indirect funcs called
    \* ---- PoolSpec: Encode calls of several goroutines, statement by statement
    encoders,         \* the Encoders: the err field of each
    heap,             \* the encodeStates allocated so far; a *encodeState is an index
    encPc,            \* per goroutine: the statement of Encode it is at
    loc               \* per goroutine: Encode's enc, v, e and err

seqVars == <<enc, sink, encodeStatePool, ret, prev, okCalls, ncalls>>
cacheVars == <<m, lockW, lockR, indir, stack, phase, work, val, buf, compiled, called>>
poolVars == <<encoders, heap, encPc, loc>>
vars == <<enc, sink, encodeStatePool, ret, prev, okCalls, ncalls,
               m, lockW, lockR, indir, stack, phase, work, val, buf, compiled, called,
               encoders, heap, encPc, loc>>

----------------------------------------------------------------------------
\* Bounds of the model

\* calls of Marshal or Encode in one behaviour of Spec
MaxCalls == 3
\* goroutines calling Marshal at once in CacheSpec
NumThreads == 2
\* typeEncoder frames one goroutine may have open in CacheSpec
MaxDepth == 4

----------------------------------------------------------------------------
\* The type universe: reflect.Type values, by name

Types == {"bool", "int", "float64", "string", "Keyword", "Symbol", "iface",
          "TextMarshaler", "coolness", "chan", "intptr", "vector", "floats",
          "marshalers", "KMap", "Set", "boolfloat", "rec", "mrec"}

\* t.Kind()
Kind(t) ==
    CASE t = "bool" -> "Bool"
      [] t = "int" -> "Int"
      [] t = "float64" -> "Float64"
      [] t \in {"string", "Keyword", "Symbol"} -> "String"
      [] t \in {"iface", "TextMarshaler"} -> "Interface"
      [] t = "coolness" -> "Struct"
      [] t = "chan" -> "Chan"
      [] t = "intptr" -> "Ptr"
      [] t \in {"vector", "floats", "marshalers", "rec"} -> "Slice"
      [] t \in {"KMap", "Set", "boolfloat", "mrec"} -> "Map"

\* t.Key() of a map type
KeyOf(t) ==
    CASE t = "KMap" -> "string"
      [] t = "Set" -> "iface"
      [] t = "boolfloat" -> "bool"
      [] t = "mrec" -> "string"

\* t.Elem() of a map, slice or pointer type
ElemOf(t) ==
    CASE t = "KMap" -> "iface"
      [] t = "Set" -> "bool"
      [] t = "boolfloat" -> "float64"
      [] t = "vector" -> "iface"
      [] t = "floats" -> "float64"
      [] t = "marshalers" -> "TextMarshaler"
      [] t = "rec" -> "rec"
      [] t = "mrec" -> "mrec"
      [] t = "intptr" -> "int"

\* t.Implements(textMarshalerType)
Implements(t) == t \in {"coolness", "TextMarshaler"}

setType == "Set"
keywordType == "Keyword"
symbolType == "Symbol"
keywordMapType == "KMap"

----------------------------------------------------------------------------
\* Values: reflect.Value, a type name and a payload

Invalid == [t |-> "invalid"]
BoolV(b) == [t |-> "bool", b |-> b]
IntV(n) == [t |-> "int", n |-> n]
FloatV(c, x) == [t |-> "float64", cls |-> c, tenths |-> x]
StrV(t, s) == [t |-> t, s |-> s]
IfaceV(d) == [t |-> "iface", dyn |-> d]
MarshalerV(d) == [t |-> "TextMarshaler", dyn |-> d]
CoolV(res, text) == [t |-> "coolness", res |-> res, text |-> text]
ChanV == [t |-> "chan"]
PtrV(isNil, d) == [t |-> "intptr", isNil |-> isNil, dyn |-> d]
SliceV(t, isNil, elems) == [t |-> t, isNil |-> isNil, elems |-> elems]
MapV(t, isNil, entries) == [t |-> t, isNil |-> isNil, entries |-> entries]

\* The values the model hands to Marshal and Encode
KMapFoo ==
    MapV("KMap", FALSE, {<<StrV("string", <<"f", "o", "o">>), IfaceV(IntV(123))>>})
KMapFooBar ==
    MapV("KMap", FALSE, {<<StrV("string", <<"f", "o", "o">>), IfaceV(IntV(123))>>,
                         <<StrV("string", <<"b", "a", "r">>), IfaceV(BoolV(TRUE))>>})
SetTwo ==
    MapV("Set", FALSE, {<<IfaceV(IntV(2)), BoolV(TRUE)>>,
                        <<IfaceV(StrV("Keyword", <<":", "y">>)), BoolV(TRUE)>>})
BoolFloatTwo ==
    MapV("boolfloat", FALSE, {<<BoolV(TRUE), FloatV("finite", 1)>>,
                              <<BoolV(FALSE), FloatV("finite", 31)>>})
BoolFloatNaN ==
    MapV("boolfloat", FALSE, {<<BoolV(TRUE), FloatV("NaN", 0)>>})
FloatsThenNaN ==
    SliceV("floats", FALSE, <<FloatV("finite", -5), FloatV("NaN", 0)>>)
MarshalersThenNil ==
    SliceV("marshalers", FALSE,
           <<MarshalerV(CoolV("ok", <<"c">>)), MarshalerV(Invalid)>>)
VectorMixed ==
    SliceV("vector", FALSE, <<IfaceV(IntV(-1)), IfaceV(Invalid),
                              IfaceV(StrV("Symbol", <<"s">>))>>)
VectorThenChan ==
    SliceV("vector", FALSE, <<IfaceV(IntV(7)), IfaceV(ChanV)>>)
RecNested ==
    SliceV("rec", FALSE, <<SliceV("rec", TRUE, <<>>), SliceV("rec", FALSE, <<>>)>>)

\* type rec []rec and type mrec map[string]mrec: shapes that hold themselves
RecOne == SliceV("rec", FALSE, <<SliceV("rec", TRUE, <<>>)>>)
MRecOne == MapV("mrec", FALSE, {<<StrV("string", <<"k">>), MapV("mrec", TRUE, {})>>})

Values ==
    { Invalid, BoolV(FALSE), IntV(-42), IntV(105),
      FloatV("finite", 31), FloatV("finite", 20), FloatV("NaN", 0), FloatV("+Inf", 0),
      StrV("string", <<"a", "\"", "\\">>), StrV("Keyword", <<"k">>),
      StrV("Keyword", <<":", "k">>), StrV("Symbol", <<"s">>),
      ChanV, PtrV(TRUE, Invalid), PtrV(FALSE, IntV(3)),
      CoolV("ok", <<"c">>), CoolV("err", <<>>), CoolV("panicString", <<>>),
      CoolV("panicValue", <<>>),
      SliceV("vector", TRUE, <<>>), VectorMixed, VectorThenChan, FloatsThenNaN,
      MarshalersThenNil, RecNested, RecOne, MRecOne,
      MapV("KMap", TRUE, {}), KMapFoo, KMapFooBar, SetTwo, MapV("Set", TRUE, {}),
      BoolFloatTwo, BoolFloatNaN }

\* The values the model hands to Encoder.Encode
EncodeValues ==
    { Invalid, IntV(105), StrV("string", <<"a", "\"", "\\">>), FloatV("NaN", 0),
      FloatsThenNaN, VectorMixed, BoolFloatTwo, SetTwo }

----------------------------------------------------------------------------
\* The encodeState: the accumulated output, and the panic in flight (if any)

NoFail == [kind |-> "none", what |-> ""]
NoError == [kind |-> "none", what |-> ""]
Err(what) == [kind |-> "error", what |-> what]

\* e := &encodeState{}
NewState == [buf |-> <<>>, fail |-> NoFail]

\* e.Write, e.WriteString, e.WriteByte: nothing runs while a panic unwinds
Write(e, b) == IF e.fail.kind # "none" THEN e ELSE [e EXCEPT !.buf = @ \o b]

\* panic(x): kind tells what x is (an error, a runtime.Error, a string, another value)
Panic(e, kind, what) ==
    IF e.fail.kind # "none" THEN e ELSE [e EXCEPT !.fail = [kind |-> kind, what |-> what]]

\* e.error(err)
error(e, what) == Panic(e, "error", what)

----------------------------------------------------------------------------
\* Conversions

DigitChars == <<"0", "1", "2", "3", "4", "5", "6", "7", "8", "9">>

RECURSIVE Digits(_)
Digits(n) ==
    IF n < 10 THEN <<DigitChars[n + 1]>>
    ELSE Digits(n \div 10) \o <<DigitChars[(n % 10) + 1]>>

\* strconv.AppendInt(_, n, 10)
AppendInt(n) == IF n < 0 THEN <<"-">> \o Digits(-n) ELSE Digits(n)

\* strconv.AppendFloat(_, f, 'g', -1, bits) of a finite f given in tenths:
\* the shortest decimal that reads back as f
AppendFloat(x) ==
    LET a == IF x < 0 THEN -x ELSE x
        whole == Digits(a \div 10)
        frac == IF a % 10 = 0 THEN <<>> ELSE <<".", DigitChars[(a % 10) + 1]>>
    IN (IF x < 0 THEN <<"-">> ELSE <<>>) \o whole \o frac

\* strconv.Quote, which fmt.Sprintf("%#v", s) applies to a string
QuoteChar(c) ==
    CASE c = "\"" -> <<"\\", "\"">>
      [] c = "\\" -> <<"\\", "\\">>
      [] c = "\n" -> <<"\\", "n">>
      [] OTHER -> <<c>>

RECURSIVE Escape(_)
Escape(s) == IF s = <<>> THEN <<>> ELSE QuoteChar(Head(s)) \o Escape(Tail(s))

Quote(s) == <<"\"">> \o Escape(s) \o <<"\"">>

\* strings.HasPrefix(s, ":")
HasColonPrefix(s) == Len(s) >= 1 /\ s[1] = ":"

\* e.string(s) and e.stringBytes(s)
string(e, s) == Write(e, Quote(s))
stringBytes(e, s) == Write(e, Quote(s))

----------------------------------------------------------------------------
\* The renderers (encoderFuncs). Each takes the encodeState and the value and
\* gives the encodeStates it can leave behind: one, except for a map, whose
\* MapKeys come in an order the language leaves open.

\* newTypeEncoder(t, true): the renderer of a type, by name. No type of the
\* universe is time.Time or has a TextMarshaler only on its pointer.
newTypeEncoder(t) ==
    IF Implements(t) THEN "textMarshalerEncoder"
    ELSE CASE Kind(t) = "Bool" -> "boolEncoder"
           [] Kind(t) = "Int" -> "intEncoder"
           [] Kind(t) = "Float64" -> "float64Encoder"
           [] Kind(t) = "String" -> "stringEncoder"
           [] Kind(t) = "Interface" -> "interfaceEncoder"
           [] Kind(t) = "Map" -> "mapEncoder"
           [] Kind(t) = "Slice" -> "sliceEncoder"
           [] Kind(t) = "Ptr" -> "ptrEncoder"
           [] OTHER -> "unsupportedTypeEncoder"

\* What typeEncoder(t) returns to one goroutine running alone: the func that
\* newTypeEncoder built for t, from the cache or just compiled
encoderOf(t) == newTypeEncoder(t)

\* valueEncoder(v)
valueEncoder(v) == IF v = Invalid THEN "invalidValueEncoder" ELSE encoderOf(v.t)

invalidValueEncoder(e, v) == Write(e, <<"n", "i", "l">>)

boolEncoder(e, v) ==
    IF v.b THEN Write(e, <<"t", "r", "u", "e">>) ELSE Write(e, <<"f", "a", "l", "s", "e">>)

intEncoder(e, v) == Write(e, AppendInt(v.n))

\* floatEncoder.encode
floatEncoder(e, v) ==
    IF v.cls # "finite" THEN error(e, "UnsupportedValueError")
    ELSE Write(e, AppendFloat(v.tenths))

stringEncoder(e, v) ==
    IF v.t \in {symbolType, keywordType}
    THEN Write(IF v.t = keywordType /\ ~HasColonPrefix(v.s) THEN Write(e, <<":">>) ELSE e,
               v.s)
    ELSE string(e, v.s)

unsupportedTypeEncoder(e, v) == error(e, "UnsupportedTypeError")

\* m.MarshalText() of the value's own type: its outcome is the value's to choose
\* (it is code outside the package), a panic with any value included
MarshalText(e, recv) ==
    CASE recv.res = "ok" -> stringBytes(e, recv.text)
      [] recv.res = "err" -> error(e, "MarshalerError")
      [] recv.res = "panicString" -> Panic(e, "string", "MarshalText")
      [] OTHER -> Panic(e, "value", "MarshalText")

\* textMarshalerEncoder: v.Interface().(encoding.TextMarshaler) of a nil
\* interface value is a failed type assertion, a runtime.Error
textMarshalerEncoder(e, v) ==
    IF Kind(v.t) = "Ptr" /\ v.isNil THEN Write(e, <<"n", "i", "l">>)
    ELSE IF Kind(v.t) = "Interface"
         THEN IF v.dyn = Invalid THEN Panic(e, "runtime", "TypeAssertionError")
              ELSE MarshalText(e, v.dyn)
         ELSE MarshalText(e, v)

\* v.MapKeys(): the keys, in any order
MapKeys(v) ==
    LET keys == {p[1] : p \in v.entries}
        n == Cardinality(keys)
    IN {s \in [1..n -> keys] : \A i, j \in 1..n : i # j => s[i] # s[j]}

\* v.MapIndex(k)
MapIndex(v, k) == (CHOOSE p \in v.entries : p[1] = k)[2]

RECURSIVE reflectValue(_, _), call(_, _, _), mapLoop(_, _, _, _), arrayLoop(_, _, _)

\* mapEncoder.encode, from the loop's i-th key on
mapLoop(e, v, keys, i) ==
    IF e.fail.kind # "none" THEN {e}
    ELSE IF i > Len(keys) THEN {Write(e, <<"}">>)}
    ELSE LET isSet == v.t = setType
             sep == IF isSet THEN <<" ">> ELSE <<",", " ">>
             e1 == IF i > 1 THEN Write(e, sep) ELSE e
             afterKey == call(encoderOf(KeyOf(v.t)), e1, keys[i])
             afterElem ==
                 IF isSet THEN afterKey
                 ELSE UNION {call(encoderOf(ElemOf(v.t)), Write(k, <<" ">>),
                                  MapIndex(v, keys[i])) : k \in afterKey}
         IN UNION {mapLoop(x, v, keys, i + 1) : x \in afterElem}

\* mapEncoder.encode
mapEncoder(e, v) ==
    LET isSet == v.t = setType
        e1 == IF isSet THEN Write(e, <<"#">>) ELSE e
    IN IF v.isNil THEN {Write(e1, <<"{", "}">>)}
       ELSE UNION {mapLoop(Write(e1, <<"{">>), v, keys, 1) : keys \in MapKeys(v)}

\* arrayEncoder.encode, from the loop's i-th element on (i counts from 1)
arrayLoop(e, v, i) ==
    IF e.fail.kind # "none" THEN {e}
    ELSE IF i > Len(v.elems) THEN {Write(e, <<"]">>)}
    ELSE LET e1 == IF i > 1 THEN Write(e, <<" ">>) ELSE e
         IN UNION {arrayLoop(x, v, i + 1) : x \in call(encoderOf(ElemOf(v.t)), e1, v.elems[i])}

\* arrayEncoder.encode
arrayEncoder(e, v) == arrayLoop(Write(e, <<"[">>), v, 1)

\* sliceEncoder.encode
sliceEncoder(e, v) == IF v.isNil THEN {Write(e, <<"[", "]">>)} ELSE arrayEncoder(e, v)

\* ptrEncoder.encode
ptrEncoder(e, v) ==
    IF v.isNil THEN {Write(e, <<"n", "i", "l">>)} ELSE call(encoderOf(ElemOf(v.t)), e, v.dyn)

\* interfaceEncoder
interfaceEncoder(e, v) ==
    IF v.dyn = Invalid THEN {Write(e, <<"n", "i", "l">>)} ELSE reflectValue(e, v.dyn)

\* f(e, v) for the encoderFunc named f
call(f, e, v) ==
    IF e.fail.kind # "none" THEN {e}
    ELSE CASE f = "invalidValueEncoder" -> {invalidValueEncoder(e, v)}
           [] f = "boolEncoder" -> {boolEncoder(e, v)}
           [] f = "intEncoder" -> {intEncoder(e, v)}
           [] f = "float64Encoder" -> {floatEncoder(e, v)}
           [] f = "stringEncoder" -> {stringEncoder(e, v)}
           [] f = "textMarshalerEncoder" -> {textMarshalerEncoder(e, v)}
           [] f = "unsupportedTypeEncoder" -> {unsupportedTypeEncoder(e, v)}
           [] f = "interfaceEncoder" -> interfaceEncoder(e, v)
           [] f = "mapEncoder" -> mapEncoder(e, v)
           [] f = "sliceEncoder" -> sliceEncoder(e, v)
           [] f = "ptrEncoder" -> ptrEncoder(e, v)

\* e.reflectValue(v)
reflectValue(e, v) == call(valueEncoder(v), e, v)

\* The deferred func as it would be without recover(): every panic goes on
marshalNoRecover(o) ==
    IF o.fail.kind = "none" THEN [e |-> o, err |-> NoError, panic |-> NoFail]
    ELSE [e |-> o, err |-> NoError, panic |-> o.fail]

\* The deferred func of encodeState.marshal: what recover() got decides
\* whether the panic goes on (panic) or becomes the returned err
marshalRecover(o) ==
    CASE o.fail.kind = "none" -> [e |-> o, err |-> NoError, panic |-> NoFail]
      [] o.fail.kind = "runtime" -> [e |-> o, err |-> NoError, panic |-> o.fail]
      [] o.fail.kind = "string" -> [e |-> o, err |-> NoError, panic |-> o.fail]
      [] o.fail.kind = "error" -> [e |-> o, err |-> o.fail, panic |-> NoFail]
      [] OTHER -> [e |-> o, err |-> NoError,
                   panic |-> [kind |-> "runtime", what |-> "TypeAssertionError"]]

\* e.marshal(v) as it would be if the deferred func dropped what it recovered
marshalErrLost(e, v) ==
    {[e |-> o, err |-> NoError, panic |-> NoFail] : o \in reflectValue(e, v)}

\* e.marshal(v): the results it can have, each with what rendering raised
marshal(e, v) == {marshalRecover(o) : o \in reflectValue(e, v)}

\* Marshal's return as it would be if it handed out e.Bytes() with the error
MarshalReturnBytes(r) == [isNil |-> FALSE, bytes |-> r.e.buf, err |-> r.err]

\* Marshal's return (lines 35-38), given e.marshal's result: (nil, err) or (e.Bytes(), nil)
MarshalReturn(r) ==
    IF r.err # NoError THEN [isNil |-> TRUE, bytes |-> <<>>, err |-> r.err]
    ELSE [isNil |-> FALSE, bytes |-> r.e.buf, err |-> NoError]

----------------------------------------------------------------------------
\* Marshal

\* No call made yet
NoCall ==
    [n |-> 0, v |-> Invalid, raised |-> NoFail, partial |-> <<>>, returned |-> FALSE,
     isNil |-> TRUE, bytes |-> <<>>, err |-> NoError, panic |-> NoFail]

\* Marshal(v): e := &encodeState{}; err := e.marshal(v); return (nil, err) or
\* (e.Bytes(), nil). raised and partial record what rendering raised and the
\* bytes e held at that moment; a panic that marshal lets go on returns nothing.
Marshal(v) ==
    /\ \E r \in marshal(NewState, v) :
         LET out == MarshalReturn(r)
         IN ret' = IF r.panic # NoFail
                   THEN [n |-> 1, v |-> v, raised |-> r.e.fail, partial |-> r.e.buf,
                         returned |-> FALSE, isNil |-> TRUE, bytes |-> <<>>,
                         err |-> NoError, panic |-> r.panic]
                   ELSE [n |-> 1, v |-> v, raised |-> r.e.fail, partial |-> r.e.buf,
                         returned |-> TRUE, isNil |-> out.isNil, bytes |-> out.bytes,
                         err |-> out.err, panic |-> NoFail]
    /\ prev' = ret
    /\ UNCHANGED <<enc, sink, encodeStatePool, okCalls, ncalls>>
    /\ UNCHANGED <<cacheVars, poolVars>>

----------------------------------------------------------------------------
\* The stream Encoder

\* cap(encodeStatePool)
PoolCap == 8

\* The errors the sink's Write can return
SinkErrors == {Err("EPIPE"), Err("ENOSPC")}

\* e.Reset() as it would be if the pooled bytes were kept
ResetNothing(e) == e

\* e.Reset()
Reset(e) == [e EXCEPT !.buf = <<>>]

\* newEncodeState(): a pooled state, Reset, or a new one; with the pool it leaves
newEncodeState(pool) ==
    IF pool # <<>> THEN [e |-> Reset(Head(pool)), pool |-> Tail(pool)]
    ELSE [e |-> NewState, pool |-> pool]

\* putEncodeState(e): into the pool unless it is full
putEncodeState(pool, e) == IF Len(pool) < PoolCap THEN Append(pool, e) ELSE pool

\* Encode's first test as it would be if the stored error were not looked at
encFailedNever(en) == FALSE

\* Encode's first test: enc.err != nil
encFailed(en) == en.err # NoError

\* enc.Encode(v), the sink answering its Write (if one is made) with werr
Encode(v, werr) ==
    /\ ncalls < MaxCalls
    /\ ncalls' = ncalls + 1
    /\ IF encFailed(enc)
       THEN /\ ret' = [NoCall EXCEPT !.n = ncalls + 1, !.v = v, !.returned = TRUE,
                                     !.err = enc.err]
            /\ UNCHANGED <<enc, sink, encodeStatePool, okCalls>>
       ELSE LET st == newEncodeState(encodeStatePool)
            IN \E r \in marshal(st.e, v) :
                 LET base == [NoCall EXCEPT !.n = ncalls + 1, !.v = v,
                                            !.raised = r.e.fail, !.partial = r.e.buf]
                     e2 == Write(r.e, <<"\n">>)
                 IN IF r.panic # NoFail
                    THEN /\ ret' = [base EXCEPT !.panic = r.panic]
                         /\ encodeStatePool' = st.pool
                         /\ UNCHANGED <<enc, sink, okCalls>>
                    ELSE IF r.err # NoError
                    THEN /\ ret' = [base EXCEPT !.returned = TRUE, !.err = r.err]
                         /\ encodeStatePool' = st.pool
                         /\ UNCHANGED <<enc, sink, okCalls>>
                    ELSE /\ sink' = Append(sink, [data |-> e2.buf, err |-> werr,
                                                  call |-> ncalls + 1])
                         /\ enc' = IF werr # NoError THEN [enc EXCEPT !.err = werr] ELSE enc
                         /\ encodeStatePool' = putEncodeState(st.pool, e2)
                         /\ okCalls' = IF werr = NoError THEN Append(okCalls, v) ELSE okCalls
                         /\ ret' = [base EXCEPT !.returned = TRUE, !.err = werr]
    /\ UNCHANGED prev
    /\ UNCHANGED <<cacheVars, poolVars>>

----------------------------------------------------------------------------
\* The state the cache variables have where they play no part
CacheIdle ==
    /\ m = [t \in Types |-> [fn |-> "nil"]]
    /\ lockW = 0
    /\ lockR = {}
    /\ indir = [g \in 1..NumThreads |-> <<>>]
    /\ stack = [g \in 1..NumThreads |-> <<>>]
    /\ phase = [g \in 1..NumThreads |-> "idle"]
    /\ work = [g \in 1..NumThreads |-> <<>>]
    /\ val = [g \in 1..NumThreads |-> Invalid]
    /\ buf = [g \in 1..NumThreads |-> <<>>]
    /\ compiled = [g \in 1..NumThreads |-> [t \in Types |-> 0]]
    /\ called = [g \in 1..NumThreads |-> {}]

\* Two Encoders made by NewEncoder
Encoders == {1, 2}

\* Encode's locals before a call
NoLocals == [enc |-> 0, v |-> Invalid, e |-> 0, pooled |-> FALSE, err |-> NoError]

\* The state the variables of the concurrent Encode calls have where they
\* play no part, and before the first call
PoolIdle ==
    /\ encoders = [k \in Encoders |-> [err |-> NoError]]
    /\ heap = <<>>
    /\ encPc = [g \in 1..NumThreads |-> "idle"]
    /\ loc = [g \in 1..NumThreads |-> NoLocals]

\* NewEncoder(w) over an empty sink, an empty pool, no call made
SeqInit ==
    /\ enc = [err |-> NoError]
    /\ sink = <<>>
    /\ encodeStatePool = <<>>
    /\ ret = NoCall
    /\ prev = NoCall
    /\ okCalls = <<>>
    /\ ncalls = 0

Init == SeqInit /\ CacheIdle /\ PoolIdle

\* One goroutine using one Encoder
Next == \E v \in EncodeValues : \E werr \in {NoError} \cup SinkErrors : Encode(v, werr)

Spec == Init /\ [][Next]_vars

\* One goroutine calling Marshal again and again
MarshalNext == \E v \in Values : Marshal(v)

MarshalSpec == Init /\ [][MarshalNext]_vars

----------------------------------------------------------------------------
\* The encoder cache, statement by statement, under goroutines running at once.
\* Every goroutine runs one Marshal call: work[g] lists what its renderers
\* still have to do, stack[g] the typeEncoder calls it is inside of.

G == 1..NumThreads

\* The value all goroutines marshal at once, each its own copy
CacheValues == {RecOne}

\* The values one goroutine marshals while no other runs
SoloValues == {MRecOne, KMapFoo, VectorThenChan, PtrV(FALSE, IntV(3))}

\* encoderFuncs: a nil func, the indirect func of a typeEncoder call (by the
\* goroutine g that made the call and its index k in indir[g], where the wg and
\* the f of the closure are), or what newTypeEncoder built
NilFunc == [fn |-> "nil"]
IndirectFunc(g, k) == [fn |-> "indirect", g |-> g, k |-> k]

\* The wg and f an indirect func refers to
Closure(f) == indir[f.g][f.k]

\* The types newTypeEncoder(t) calls typeEncoder on, in order (newMapEncoder,
\* newSliceEncoder -> newArrayEncoder, newPtrEncoder)
Children(t) ==
    CASE newTypeEncoder(t) = "mapEncoder" -> <<KeyOf(t), ElemOf(t)>>
      [] newTypeEncoder(t) \in {"sliceEncoder", "ptrEncoder"} -> <<ElemOf(t)>>
      [] OTHER -> <<>>

\* The func newTypeEncoder(t) returns, sub being what those typeEncoder calls returned
BuildFunc(t, sub) ==
    CASE newTypeEncoder(t) = "mapEncoder" ->
             [fn |-> "mapEncoder", keyEnc |-> sub[1], elemEnc |-> sub[2]]
      [] newTypeEncoder(t) \in {"sliceEncoder", "ptrEncoder"} ->
             [fn |-> newTypeEncoder(t), elemEnc |-> sub[1]]
      [] OTHER -> [fn |-> newTypeEncoder(t)]

\* A typeEncoder(t) call about to start
Frame(t) == [t |-> t, pc |-> "rlock", id |-> 0, sub |-> <<>>]

Top(g) == stack[g][Len(stack[g])]
At(g, pc) == phase[g] = "run" /\ stack[g] # <<>> /\ Top(g).pc = pc
SetTop(g, fr) == LET st == stack[g] IN [stack EXCEPT ![g] = [st EXCEPT ![Len(st)] = fr]]

\* line 129 as it would be if an indirect func in the cache counted as no entry
cacheHitFinalOnly(f) == f.fn \notin {"nil", "indirect"}

\* line 129: f != nil
cacheHit(f) == f # NilFunc

\* line 143 as it would be behind a re-check: an entry already there is kept
installIfAbsent(cur, ind) == IF cur = [fn |-> "nil"] THEN ind ELSE cur

\* line 143: what encoderCache.m[t] holds after it, cur being what it held and
\* ind the new indirect func
installEntry(cur, ind) == ind

\* line 152 as it would be if wg.Done() were left out
wgDoneForgotten(w) == w

\* line 152: wg.Done()
wgDone(w) == [w EXCEPT !.wg = @ - 1]

\* line 144 as it would be if the indirect func did not wait
waitDoneAlways(w) == TRUE

\* line 144: wg.Wait() returns
waitDone(w) == w.wg = 0

\* `return f` of the innermost typeEncoder call: to newTypeEncoder of the call
\* around it, or to valueEncoder, whose caller then calls f(e, v)
ReturnFunc(g, f) ==
    LET st == stack[g]
        rest == SubSeq(st, 1, Len(st) - 1)
    IN IF rest # <<>>
       THEN /\ stack' = [stack EXCEPT
                           ![g] = [rest EXCEPT ![Len(rest)].sub = Append(@, f)]]
            /\ UNCHANGED work
       ELSE /\ stack' = [stack EXCEPT ![g] = <<>>]
            /\ work' = [work EXCEPT
                          ![g] = <<[op |-> "call", f |-> f, v |-> Head(@).v]>> \o Tail(@)]

\* line 126: encoderCache.RLock()
RLock(g) ==
    /\ At(g, "rlock")
    /\ lockW = 0
    /\ lockR' = lockR \cup {g}
    /\ stack' = SetTop(g, [Top(g) EXCEPT !.pc = "lookup"])
    /\ UNCHANGED <<m, lockW, indir, phase, work, val, buf, compiled, called>>
    /\ UNCHANGED <<seqVars, poolVars>>

\* lines 127-131: f := encoderCache.m[t]; RUnlock(); if f != nil { return f }
Lookup(g) ==
    /\ At(g, "lookup")
    /\ lockR' = lockR \ {g}
    /\ IF cacheHit(m[Top(g).t])
       THEN ReturnFunc(g, m[Top(g).t])
       ELSE /\ stack' = SetTop(g, [Top(g) EXCEPT !.pc = "lock"])
            /\ UNCHANGED work
    /\ UNCHANGED <<m, lockW, indir, phase, val, buf, compiled, called>>
    /\ UNCHANGED <<seqVars, poolVars>>

\* lines 137 and 153: encoderCache.Lock()
Lock(g) ==
    /\ At(g, "lock") \/ At(g, "lock2")
    /\ lockW = 0
    /\ lockR = {}
    /\ lockW' = g
    /\ stack' = SetTop(g, [Top(g) EXCEPT
                             !.pc = IF @ = "lock" THEN "install" ELSE "publish"])
    /\ UNCHANGED <<m, lockR, indir, phase, work, val, buf, compiled, called>>
    /\ UNCHANGED <<seqVars, poolVars>>

\* lines 138-147: wg.Add(1); encoderCache.m[t] = the indirect func; Unlock()
Install(g) ==
    /\ At(g, "install")
    /\ LET id == Len(indir[g]) + 1
           t == Top(g).t
       IN /\ indir' = [indir EXCEPT ![g] = Append(@, [wg |-> 1, f |-> NilFunc, t |-> t])]
          /\ m' = [m EXCEPT ![t] = installEntry(@, IndirectFunc(g, id))]
          /\ stack' = SetTop(g, [Top(g) EXCEPT !.pc = "build", !.id = id])
    /\ lockW' = 0
    /\ UNCHANGED <<lockR, phase, work, val, buf, compiled, called>>
    /\ UNCHANGED <<seqVars, poolVars>>

\* line 151: f = newTypeEncoder(t, true), up to its next typeEncoder call or,
\* those made, to the assignment of f
Build(g) ==
    /\ At(g, "build")
    /\ LET fr == Top(g)
           kids == Children(fr.t)
       IN /\ compiled' = IF fr.sub = <<>>
                         THEN [compiled EXCEPT ![g][fr.t] = @ + 1] ELSE compiled
          /\ IF Len(fr.sub) < Len(kids)
             THEN /\ Len(stack[g]) < MaxDepth
                  /\ stack' = [stack EXCEPT
                                 ![g] = Append(@, Frame(kids[Len(fr.sub) + 1]))]
                  /\ UNCHANGED indir
             ELSE /\ indir' = [indir EXCEPT ![g][fr.id].f = BuildFunc(fr.t, fr.sub)]
                  /\ stack' = SetTop(g, [fr EXCEPT !.pc = "wgdone"])
    /\ UNCHANGED <<m, lockW, lockR, phase, work, val, buf, called>>
    /\ UNCHANGED <<seqVars, poolVars>>

\* line 152: wg.Done()
WgDone(g) ==
    /\ At(g, "wgdone")
    /\ indir' = [indir EXCEPT ![g][Top(g).id] = wgDone(@)]
    /\ stack' = SetTop(g, [Top(g) EXCEPT !.pc = "lock2"])
    /\ UNCHANGED <<m, lockW, lockR, phase, work, val, buf, compiled, called>>
    /\ UNCHANGED <<seqVars, poolVars>>

\* lines 154-156: encoderCache.m[t] = f; Unlock(); return f
Publish(g) ==
    /\ At(g, "publish")
    /\ m' = [m EXCEPT ![Top(g).t] = indir[g][Top(g).id].f]
    /\ lockW' = 0
    /\ ReturnFunc(g, indir[g][Top(g).id].f)
    /\ UNCHANGED <<lockR, indir, phase, val, buf, compiled, called>>
    /\ UNCHANGED <<seqVars, poolVars>>

\* Work items: a renderer call f(e, v), e.reflectValue(v), a write to e
CallItem(f, v) == [op |-> "call", f |-> f, v |-> v]
ReflectItem(v) == [op |-> "reflect", v |-> v]
WriteItem(b) == [op |-> "write", b |-> b]

\* arrayEncoder.encode: what it does, in order
RECURSIVE arrayItems(_, _, _)
arrayItems(f, v, i) ==
    IF i > Len(v.elems) THEN <<WriteItem(<<"]">>)>>
    ELSE (IF i > 1 THEN <<WriteItem(<<" ">>)>> ELSE <<>>)
         \o <<CallItem(f.elemEnc, v.elems[i])>> \o arrayItems(f, v, i + 1)

\* sliceEncoder.encode
sliceItems(f, v) ==
    IF v.isNil THEN <<WriteItem(<<"[", "]">>)>>
    ELSE <<WriteItem(<<"[">>)>> \o arrayItems(f, v, 1)

\* mapEncoder.encode, the loop over keys
RECURSIVE mapLoopItems(_, _, _, _)
mapLoopItems(f, v, keys, i) ==
    IF i > Len(keys) THEN <<WriteItem(<<"}">>)>>
    ELSE LET isSet == v.t = setType
         IN (IF i > 1 THEN <<WriteItem(IF isSet THEN <<" ">> ELSE <<",", " ">>)>> ELSE <<>>)
            \o <<CallItem(f.keyEnc, keys[i])>>
            \o (IF isSet THEN <<>>
                ELSE <<WriteItem(<<" ">>), CallItem(f.elemEnc, MapIndex(v, keys[i]))>>)
            \o mapLoopItems(f, v, keys, i + 1)

\* mapEncoder.encode, keys being what v.MapKeys() gave
mapItems(f, v, keys) ==
    (IF v.t = setType THEN <<WriteItem(<<"#">>)>> ELSE <<>>)
    \o (IF v.isNil THEN <<WriteItem(<<"{", "}">>)>>
        ELSE <<WriteItem(<<"{">>)>> \o mapLoopItems(f, v, keys, 1))

\* ptrEncoder.encode
ptrItems(f, v) ==
    IF v.isNil THEN <<WriteItem(<<"n", "i", "l">>)>> ELSE <<CallItem(f.elemEnc, v.dyn)>>

\* interfaceEncoder
interfaceItems(v) ==
    IF v.dyn = Invalid THEN <<WriteItem(<<"n", "i", "l">>)>> ELSE <<ReflectItem(v.dyn)>>

\* The writes at the head of the work are made at once
RECURSIVE Settle(_, _)
Settle(b, w) ==
    IF w # <<>> /\ Head(w).op = "write" THEN Settle(b \o Head(w).b, Tail(w))
    ELSE [buf |-> b, work |-> w]

\* The goroutine goes on with work w, or its Marshal returns e.Bytes()
GoOn(g, b, w) ==
    LET s == Settle(b, w)
    IN /\ buf' = [buf EXCEPT ![g] = s.buf]
       /\ work' = [work EXCEPT ![g] = s.work]
       /\ phase' = [phase EXCEPT ![g] = IF s.work = <<>> THEN "done" ELSE "run"]

\* The goroutine's Marshal ends in how: "failed" (an error returned) or "panic"
Abort(g, how) ==
    /\ phase' = [phase EXCEPT ![g] = how]
    /\ work' = [work EXCEPT ![g] = <<>>]
    /\ UNCHANGED buf

\* e.reflectValue(v): valueEncoder(v), which calls typeEncoder(v.Type())
ReflectValue(g) ==
    /\ phase[g] = "run" /\ stack[g] = <<>>
    /\ work[g] # <<>> /\ Head(work[g]).op = "reflect"
    /\ LET v == Head(work[g]).v
       IN IF v = Invalid
          THEN /\ work' = [work EXCEPT
                             ![g] = <<CallItem([fn |-> "invalidValueEncoder"], v)>> \o Tail(@)]
               /\ UNCHANGED stack
          ELSE /\ stack' = [stack EXCEPT ![g] = <<Frame(v.t)>>]
               /\ UNCHANGED work
    /\ UNCHANGED <<m, lockW, lockR, indir, phase, val, buf, compiled, called>>
    /\ UNCHANGED <<seqVars, poolVars>>

\* f(e, v) for the func at the head of the work. An indirect func waits for
\* its wg and calls the f of its closure: a nil f is a runtime panic, which
\* marshal lets go on.
CallFunc(g) ==
    /\ phase[g] = "run" /\ stack[g] = <<>>
    /\ work[g] # <<>> /\ Head(work[g]).op = "call"
    /\ LET f == Head(work[g]).f
           v == Head(work[g]).v
           rest == Tail(work[g])
       IN CASE f.fn = "indirect" ->
                 /\ waitDone(Closure(f))
                 /\ called' = [called EXCEPT ![g] = @ \cup {[by |-> f.g, f |-> Closure(f).f]}]
                 /\ IF Closure(f).f = NilFunc THEN Abort(g, "panic")
                    ELSE GoOn(g, buf[g], <<CallItem(Closure(f).f, v)>> \o rest)
            [] f.fn = "sliceEncoder" ->
                 /\ GoOn(g, buf[g], sliceItems(f, v) \o rest)
                 /\ UNCHANGED called
            [] f.fn = "mapEncoder" ->
                 /\ \E keys \in MapKeys(v) : GoOn(g, buf[g], mapItems(f, v, keys) \o rest)
                 /\ UNCHANGED called
            [] f.fn = "ptrEncoder" ->
                 /\ GoOn(g, buf[g], ptrItems(f, v) \o rest)
                 /\ UNCHANGED called
            [] f.fn = "interfaceEncoder" ->
                 /\ GoOn(g, buf[g], interfaceItems(v) \o rest)
                 /\ UNCHANGED called
            [] OTHER ->
                 /\ \E o \in call(f.fn, [buf |-> buf[g], fail |-> NoFail], v) :
                      IF o.fail.kind = "none" THEN GoOn(g, o.buf, rest)
                      ELSE Abort(g, IF o.fail.kind = "error" THEN "failed" ELSE "panic")
                 /\ UNCHANGED called
    /\ UNCHANGED <<m, lockW, lockR, indir, stack, val, compiled>>
    /\ UNCHANGED <<seqVars, poolVars>>

\* No cache, no lock held, and either every goroutine about to marshal a value
\* of one self-referential shape, or goroutine 1 alone about to marshal
\* (the others make no call)
CacheInit ==
    /\ SeqInit
    /\ PoolIdle
    /\ m = [t \in Types |-> NilFunc]
    /\ lockW = 0
    /\ lockR = {}
    /\ indir = [g \in G |-> <<>>]
    /\ stack = [g \in G |-> <<>>]
    /\ \/ /\ phase = [g \in G |-> "run"]
          /\ \E v \in CacheValues : val = [g \in G |-> v]
       \/ /\ phase = [g \in G |-> IF g = 1 THEN "run" ELSE "idle"]
          /\ \E v \in SoloValues : val = [g \in G |-> v]
    /\ work = [g \in G |-> <<ReflectItem(val[g])>>]
    /\ buf = [g \in G |-> <<>>]
    /\ compiled = [g \in G |-> [t \in Types |-> 0]]
    /\ called = [g \in G |-> {}]

Step(g) ==
    \/ ReflectValue(g)
    \/ RLock(g)
    \/ Lookup(g)
    \/ Lock(g)
    \/ Install(g)
    \/ Build(g)
    \/ WgDone(g)
    \/ Publish(g)
    \/ CallFunc(g)

CacheNext == \E g \in G : Step(g)

CacheSpec == CacheInit /\ [][CacheNext]_vars

\* The scheduler lets every goroutine that can run take its next step
FairCacheSpec == CacheSpec /\ \A g \in G : WF_vars(Step(g))

----------------------------------------------------------------------------
\* Encoder.Encode, statement by statement, under goroutines running at once on
\* the same or on different Encoders. The encodeStates live in heap; the pool
\* and the locals e hold their indexes.

\* The values the goroutines encode: one that encodes, one that raises an
\* error at once, one that writes some bytes and then panics
PoolValues == {IntV(3), ChanV, MarshalersThenNil}

\* What the sink's Write answers
PoolSinkAnswers == {NoError, Err("EPIPE")}

\* case e := <-encodeStatePool, as it would be if the receive left e in the channel
chanPeek(pool) == [e |-> Head(pool), pool |-> pool]

\* case e := <-encodeStatePool: the receive takes e out of the channel
chanRecv(pool) == [e |-> Head(pool), pool |-> Tail(pool)]

\* The Encoders a goroutine calls: goroutine 1 keeps to one, the others use
\* that one or another
EncodersOf(g) == IF g = 1 THEN {1} ELSE Encoders

\* The goroutine is between e := newEncodeState() and the end of putEncodeState(e)
Using(g) == encPc[g] \in {"marshal", "newline", "write", "put"}

\* The call Encode(v) on Encoder k begins; line 45-47: if enc.err != nil { return enc.err }
EncBegin(g) ==
    /\ encPc[g] = "idle"
    /\ ncalls < MaxCalls
    /\ ncalls' = ncalls + 1
    /\ \E k \in EncodersOf(g) : \E v \in PoolValues :
         IF encFailed(encoders[k])
         THEN /\ loc' = [loc EXCEPT ![g] = [NoLocals EXCEPT !.enc = k, !.v = v,
                                                            !.err = encoders[k].err]]
              /\ encPc' = [encPc EXCEPT ![g] = "return"]
         ELSE /\ loc' = [loc EXCEPT ![g] = [NoLocals EXCEPT !.enc = k, !.v = v]]
              /\ encPc' = [encPc EXCEPT ![g] = "new"]
    /\ UNCHANGED <<encoders, heap, encodeStatePool>>
    /\ UNCHANGED <<enc, sink, ret, prev, okCalls, cacheVars>>

\* Line 48: e := newEncodeState(), a pooled state after Reset or a new one
EncNewState(g) ==
    /\ encPc[g] = "new"
    /\ IF encodeStatePool # <<>>
       THEN LET got == chanRecv(encodeStatePool)
            IN /\ encodeStatePool' = got.pool
               /\ heap' = [heap EXCEPT ![got.e] = Reset(@)]
               /\ loc' = [loc EXCEPT ![g].e = got.e, ![g].pooled = TRUE]
       ELSE /\ heap' = Append(heap, NewState)
            /\ loc' = [loc EXCEPT ![g].e = Len(heap) + 1]
            /\ UNCHANGED encodeStatePool
    /\ encPc' = [encPc EXCEPT ![g] = "marshal"]
    /\ UNCHANGED <<encoders, ncalls>>
    /\ UNCHANGED <<enc, sink, ret, prev, okCalls, cacheVars>>

\* Lines 49-52: err := e.marshal(v); if err != nil { return err }. A panic that
\* marshal lets go on ends the call without a return.
EncMarshal(g) ==
    /\ encPc[g] = "marshal"
    /\ \E r \in marshal(heap[loc[g].e], loc[g].v) :
         /\ heap' = [heap EXCEPT ![loc[g].e] = r.e]
         /\ IF r.panic # NoFail
            THEN /\ encPc' = [encPc EXCEPT ![g] = "panic"]
                 /\ UNCHANGED loc
            ELSE IF r.err # NoError
            THEN /\ encPc' = [encPc EXCEPT ![g] = "return"]
                 /\ loc' = [loc EXCEPT ![g].err = r.err]
            ELSE /\ encPc' = [encPc EXCEPT ![g] = "newline"]
                 /\ UNCHANGED loc
    /\ UNCHANGED <<encoders, encodeStatePool, ncalls>>
    /\ UNCHANGED <<enc, sink, ret, prev, okCalls, cacheVars>>

\* Line 60: e.WriteByte('\n')
EncNewline(g) ==
    /\ encPc[g] = "newline"
    /\ heap' = [heap EXCEPT ![loc[g].e] = Write(@, <<"\n">>)]
    /\ encPc' = [encPc EXCEPT ![g] = "write"]
    /\ UNCHANGED <<encoders, loc, encodeStatePool, ncalls>>
    /\ UNCHANGED <<enc, sink, ret, prev, okCalls, cacheVars>>

\* Lines 62-64: if _, err = enc.w.Write(e.Bytes()); err != nil { enc.err = err }
EncWrite(g) ==
    /\ encPc[g] = "write"
    /\ \E werr \in PoolSinkAnswers :
         /\ loc' = [loc EXCEPT ![g].err = werr]
         /\ encoders' = IF werr # NoError
                        THEN [encoders EXCEPT ![loc[g].enc].err = werr]
                        ELSE encoders
    /\ encPc' = [encPc EXCEPT ![g] = "put"]
    /\ UNCHANGED <<heap, encodeStatePool, ncalls>>
    /\ UNCHANGED <<enc, sink, ret, prev, okCalls, cacheVars>>

\* Line 65: putEncodeState(e)
EncPut(g) ==
    /\ encPc[g] = "put"
    /\ encodeStatePool' = putEncodeState(encodeStatePool, loc[g].e)
    /\ encPc' = [encPc EXCEPT ![g] = "return"]
    /\ UNCHANGED <<encoders, heap, loc, ncalls>>
    /\ UNCHANGED <<enc, sink, ret, prev, okCalls, cacheVars>>

\* Lines 46, 51, 66: return
EncReturn(g) ==
    /\ encPc[g] = "return"
    /\ encPc' = [encPc EXCEPT ![g] = "idle"]
    /\ loc' = [loc EXCEPT ![g] = NoLocals]
    /\ UNCHANGED <<encoders, heap, encodeStatePool, ncalls>>
    /\ UNCHANGED <<enc, sink, ret, prev, okCalls, cacheVars>>

EncStep(g) ==
    \/ EncBegin(g)
    \/ EncNewState(g)
    \/ EncMarshal(g)
    \/ EncNewline(g)
    \/ EncWrite(g)
    \/ EncPut(g)
    \/ EncReturn(g)

PoolNext == \E g \in G : EncStep(g)

PoolSpec == Init /\ [][PoolNext]_vars

----------------------------------------------------------------------------
\* Properties of the stream Encoder (Spec)

\* C1: once a write to the sink has failed inside Encode, every later Encode
\* call on that Encoder, whatever the value, returns the stored error, leaves
\* the stored error as it is and makes no further write to the sink
C1_FailedEncoderStaysFailed ==
    [][(enc.err # NoError /\ ret'.n # ret.n)
         => /\ ret'.returned /\ ret'.err = enc.err /\ ret'.panic = NoFail
            /\ sink' = sink
            /\ enc' = enc]_vars

\* An Encode call made after the call whose write failed, answered with that error
C1_Witness ==
    /\ sink # <<>>
    /\ sink[Len(sink)].err # NoError
    /\ enc.err = sink[Len(sink)].err
    /\ ret.n > sink[Len(sink)].call
    /\ ret.err = enc.err

\* The encodings of v, each with its newline
Lines(v) == {o.buf \o <<"\n">> : o \in {x \in reflectValue(NewState, v) : x.fail = NoFail}}

\* C7: the Encode calls that returned nil are matched one to one, in call
\* order, by the writes the sink accepted, the i-th write being one whole
\* encoding of the i-th value followed by one newline; the only other write the
\* sink can have seen is the failed one, and it is the last
C7_OneWritePerEncode ==
    LET good == SelectSeq(sink, LAMBDA w : w.err = NoError)
    IN /\ Len(good) = Len(okCalls)
       /\ \A i \in 1..Len(good) : good[i].data \in Lines(okCalls[i])
       /\ \A i \in 1..Len(sink) : sink[i].err # NoError => i = Len(sink)
       /\ \A i, j \in 1..Len(sink) : i < j => sink[i].call < sink[j].call
       /\ enc.err = NoError => Len(sink) = Len(okCalls)

\* Two successful Encode calls of different values, the second on a pooled state
C7_Witness ==
    /\ enc.err = NoError
    /\ Len(okCalls) >= 2
    /\ okCalls[1] # okCalls[2]
    /\ Len(sink) = Len(okCalls)
    /\ encodeStatePool # <<>>

----------------------------------------------------------------------------
\* Properties of Marshal (MarshalSpec)

\* C2 as claimed: whatever rendering raises comes back from Marshal as a
\* returned error, and nothing leaves Marshal as a panic
C2_EveryFailureReturned ==
    ret.raised # NoFail => (ret.returned /\ ret.err # NoError /\ ret.panic = NoFail)

\* C2: what a renderer raises through e.error (a panic with an error that is no
\* runtime.Error) comes back from Marshal as the returned error, at any depth;
\* a panic with a runtime.Error, a string or any other value leaves Marshal as
\* a panic
C2_ErrorsReturnedOthersEscape ==
    /\ ret.raised.kind = "error"
         => (ret.returned /\ ret.err = ret.raised /\ ret.panic = NoFail)
    /\ ret.raised.kind \in {"runtime", "string", "value"}
         => (~ret.returned /\ ret.panic # NoFail /\ ret.panic.kind \in {"runtime", "string"})
    /\ ret.raised = NoFail => (ret.n = 1 => ret.returned /\ ret.err = NoError)

\* An error raised below the top of the value and returned, after a call that
\* a runtime.Error left as a panic
C2_Witness ==
    /\ ret.raised.kind = "error" /\ ret.partial # <<>> /\ ret.returned
    /\ prev.raised.kind = "runtime" /\ prev.panic # NoFail

\* C3: when rendering fails with bytes already in the accumulator, Marshal
\* hands out no bytes: it returns (nil, the error), or, the panic going on,
\* nothing at all
C3_NoPartialBytes ==
    (ret.raised # NoFail /\ ret.partial # <<>>)
        => /\ ret.isNil /\ ret.bytes = <<>>
           /\ ret.returned => ret.err = ret.raised

\* A returned error raised by an element that is not the first
C3_Witness ==
    /\ ret.v = FloatsThenNaN
    /\ ret.returned /\ ret.err = Err("UnsupportedValueError")
    /\ ret.partial = <<"[", "-", "0", ".", "5", " ">>

\* The EDN that KMap's comment and TestKMap give, in either order of the keys
KMapExpected(v) ==
    IF v = KMapFoo THEN {<<"{", ":", "f", "o", "o", " ", "1", "2", "3", "}">>}
    ELSE {<<"{", ":", "f", "o", "o", " ", "1", "2", "3", ",", " ",
            ":", "b", "a", "r", " ", "t", "r", "u", "e", "}">>,
          <<"{", ":", "b", "a", "r", " ", "t", "r", "u", "e", ",", " ",
            ":", "f", "o", "o", " ", "1", "2", "3", "}">>}

\* C6: Marshal of a KMap renders every string key as a keyword
C6_KMapKeysAsKeywords ==
    (ret.n = 1 /\ ret.v \in {KMapFoo, KMapFooBar})
        => (ret.returned /\ ret.err = NoError /\ ret.bytes \in KMapExpected(ret.v))

\* C8: two Marshal calls on the same value return the same bytes
C8_SameInputSameOutput ==
    (prev.n = 1 /\ ret.n = 1 /\ prev.v = ret.v /\ prev.returned /\ ret.returned)
        => (prev.isNil = ret.isNil /\ prev.bytes = ret.bytes /\ prev.err = ret.err)

----------------------------------------------------------------------------
\* Properties of the encoder cache (CacheSpec, FairCacheSpec)

\* The goroutine's Marshal call has returned (or it made none)
Returned(g) == phase[g] \in {"done", "failed", "idle"}

\* The goroutine is inside an indirect func, at a wg.Wait() that cannot return yet
WaitsOnIndirect(g) ==
    /\ phase[g] = "run" /\ stack[g] = <<>> /\ work[g] # <<>>
    /\ Head(work[g]).op = "call" /\ Head(work[g]).f.fn = "indirect"
    /\ Closure(Head(work[g]).f).wg # 0

\* C4: under every interleaving of the goroutines' Marshal calls on values of
\* one shape, first encounters of a self-referential shape included, every
\* call returns in the end
C4_EveryCallReturns == <>(\A g \in G : Returned(g))

\* One goroutine waits inside the indirect func of another goroutine, which
\* has not finished building the real func
C4_Witness ==
    \E g, h \in G : g # h /\ WaitsOnIndirect(g) /\ Head(work[g]).f.g = h

\* The program counters of a typeEncoder call past its lookup
SlowPath == {"lock", "install", "build", "wgdone", "lock2", "publish"}

\* C5: within one goroutine's call no shape is compiled twice: the lookup for
\* a shape under construction finds an entry and returns it, so no typeEncoder
\* call for the shape goes down the slow path inside another one
C5_CompiledOnce ==
    \A g \in G :
        /\ \A t \in Types : compiled[g][t] <= 1
        /\ \A i, j \in 1..Len(stack[g]) :
              (i < j /\ stack[g][i].t = stack[g][j].t) => stack[g][j].pc \notin SlowPath

\* A goroutine compiled type rec []rec on first encounter, its renderer
\* holding the indirect func of that very call, and has returned
C5_Witness ==
    \E g \in G :
        /\ phase[g] = "done" /\ val[g] = RecOne
        /\ compiled[g]["rec"] = 1
        /\ indir[g] # <<>>
        /\ indir[g][1].f = [fn |-> "sliceEncoder", elemEnc |-> IndirectFunc(g, 1)]

\* C9 as claimed: an entry already in the cache is never replaced by a new
\* indirect func
C9_InstalledOnlyIfAbsent ==
    [][\A t \in Types :
         m[t] # NilFunc => ~(m'[t].fn = "indirect" /\ m'[t] # m[t])]_vars

\* C9: the fast path returns the entry it finds as it is and leaves the cache
\* alone; the slow path, once it holds the exclusive lock, installs its new
\* indirect func without another look at the cache, whatever entry is there
C9_InstalledWithoutRecheck ==
    [][\A g \in G :
         /\ (At(g, "install") /\ stack'[g] # stack[g])
               => (lockW = g /\ m'[Top(g).t] = IndirectFunc(g, Len(indir[g]) + 1))
         /\ (At(g, "lookup") /\ stack'[g] # stack[g] /\ m[Top(g).t] # NilFunc)
               => /\ m' = m
                  /\ Len(stack[g]) = 1 => Head(work'[g]) = CallItem(m[Top(g).t], val[g])
                  /\ Len(stack[g]) > 1 =>
                        stack'[g][Len(stack[g]) - 1].sub
                            = Append(stack[g][Len(stack[g]) - 1].sub, m[Top(g).t])]_vars

\* Two goroutines have each installed an indirect func for the same shape
C9_Witness ==
    \E g, h \in G :
        /\ g # h /\ indir[g] # <<>> /\ indir[h] # <<>>
        /\ indir[g][1].t = indir[h][1].t

\* A func with nothing missing: no nil func in it
RECURSIVE Complete(_)
Complete(f) ==
    CASE f.fn = "nil" -> FALSE
      [] f.fn = "mapEncoder" -> Complete(f.keyEnc) /\ Complete(f.elemEnc)
      [] f.fn \in {"sliceEncoder", "ptrEncoder"} -> Complete(f.elemEnc)
      [] OTHER -> TRUE

\* C10: whenever an indirect func gets past its wait and calls the f of its
\* closure, that f is the func newTypeEncoder returned: never nil, nothing
\* missing in it; no call of a nil func ever panics
C10_RealRendererBuilt ==
    \A g \in G :
        /\ phase[g] # "panic"
        /\ \A c \in called[g] : c.f # NilFunc /\ Complete(c.f)

\* A goroutine got past the wait of an indirect func another goroutine made
C10_Witness == \E g \in G : \E c \in called[g] : c.by # g

----------------------------------------------------------------------------
\* Properties of an Encode call that fails in marshal (Spec)

\* C12: when Encode fails because rendering the value raised a failure (and
\* not because of the sink), nothing is written to the sink and the Encoder's
\* stored error stays unset; the Encode call after it, given a value that
\* renders, writes one encoding of that value with its newline to the sink
C12_EncodeFailureLeavesEncoderUsable ==
    [][/\ (ncalls' = ncalls + 1 /\ ret'.raised # NoFail)
            => /\ sink' = sink
               /\ enc' = enc
               /\ enc'.err = NoError
       /\ (ncalls > 0 /\ ret.raised # NoFail /\ ncalls' = ncalls + 1
              /\ ret'.raised = NoFail)
            => /\ Len(sink') = Len(sink) + 1
               /\ sink'[Len(sink')].call = ncalls'
               /\ sink'[Len(sink')].data \in Lines(ret'.v)
               /\ ret'.returned
               /\ ret'.panic = NoFail
               /\ ret'.err = sink'[Len(sink')].err]_vars

\* The first Encode call wrote nothing and left the Encoder usable; the second
\* call wrote its value and returned nil
C12_Witness ==
    /\ ret.n = 2
    /\ ret.returned /\ ret.err = NoError /\ ret.raised = NoFail
    /\ Len(sink) = 1
    /\ sink[1].call = 2
    /\ sink[1].data \in Lines(ret.v)
    /\ enc.err = NoError

----------------------------------------------------------------------------
\* Properties of the encodeState pool (PoolSpec)

\* The encodeState with index id sits in the pool
Pooled(id) == \E i \in 1..Len(encodeStatePool) : encodeStatePool[i] = id

\* C11: under every interleaving of Encode calls, on the same or on different
\* Encoders, an encodeState is used by at most one call at a time, and no
\* encodeState is in the pool while a call uses it
C11_StateHeldByOneCall ==
    /\ \A g \in G : \A h \in G :
         (g # h /\ Using(g) /\ Using(h)) => loc[g].e # loc[h].e
    /\ \A g \in G : Using(g) => ~Pooled(loc[g].e)

\* Two calls at work at once on the same Encoder, one of them on a state it
\* took from the pool
C11_Witness ==
    \E g \in G : \E h \in G :
      /\ g # h
      /\ Using(g) /\ loc[g].pooled
      /\ Using(h)
      /\ loc[g].enc = loc[h].enc

====
